---- MODULE Spec2Model ----
(***************************************************************************)
(* A model of aioridewithgps: the RideWithGPSClient of client.py, the      *)
(* dataclasses of models.py and the exceptions of exceptions.py, run       *)
(* against a server that answers each request with a status and a body.    *)
(*                                                                         *)
(* JSON values are tagged records (Null, Num, Str, Bool), JSON objects are *)
(* functions from keys to JSON values, JSON arrays are sequences.  A       *)
(* Python computation that may raise yields Ok(value) or Raise(exception). *)
(***************************************************************************)
EXTENDS Integers, Sequences, FiniteSets, TLC

VARIABLES
    client,    \* the RideWithGPSClient instance: _api_key, _auth_token, _session
    served,    \* the listing the server has shown the drains: its path and page -> response
    call,      \* the public operation in progress or last completed: op and arguments
    pc,        \* "idle" | "await" (a request is outstanding) | "recv" (its response has arrived)
    page,      \* the drain's local variable page
    acc,       \* the drain's accumulator all_trips / all_routes
    inflight,  \* the requests issued and not yet answered
    sent,      \* every request the current call has issued, in order
    resp,      \* the response being processed
    outcome,   \* how the current call ended: Ok(value), Raise(exception) or Pending
    prev       \* the drain completed just before the current call, when the current call is the same drain

vars == <<client, served, call, pc, page, acc, inflight, sent, resp, outcome, prev>>

\* ------------------------------------------------------------------ bounds

\* The page counter of a drain is capped: no request is issued for a page past it.
MaxPages == 3
\* The longest list of items the server puts on one page.
MaxItems == 2

\* ---------------------------------------------------------------- JSON values

Null == [t |-> "null"]
Num(n) == [t |-> "num", v |-> n]
Str(s) == [t |-> "str", v |-> s]
Bool(b) == [t |-> "bool", v |-> b]

\* A lookup that takes a key holding null for an absent one, as `d.get(k) or default`
\* does.
GetNullAsAbsent(d, k, default) == IF k \in DOMAIN d /\ d[k] # Null THEN d[k] ELSE default

\* Python's d.get(k, default).
Get(d, k, default) == IF k \in DOMAIN d THEN d[k] ELSE default

\* Python's d.get(k): None when the key is absent.
GetOrNone(d, k) == Get(d, k, Null)

Ok(v) == [ok |-> TRUE, v |-> v]
Raise(e) == [ok |-> FALSE, exc |-> e]

\* d[k]: KeyError when the key is absent.
Index(d, k) == IF k \in DOMAIN d THEN Ok(d[k]) ELSE Raise([type |-> "KeyError", key |-> k])

\* ---------------------------------------------------------------- exceptions

AuthenticationError(msg) == [type |-> "AuthenticationError", message |-> msg]
ForbiddenError(msg) == [type |-> "ForbiddenError", message |-> msg]
NotFoundError(msg) == [type |-> "NotFoundError", message |-> msg]

\* ApiError.__init__ stores the HTTP status and the message.
ApiError(status, message) == [type |-> "ApiError", status |-> status, message |-> message]

\* What Python raises for a keyword argument the dataclass does not declare.
TypeError(what) == [type |-> "TypeError", message |-> what]

\* ---------------------------------------------------------------- dataclasses

UserFields == {"id", "email", "first_name", "last_name", "display_name", "created_at", "updated_at"}

TripSummaryRequired == {"id", "user_id", "name", "distance", "duration", "moving_time",
    "elevation_gain", "elevation_loss", "created_at", "updated_at", "visibility"}

\* Every field the TripSummary dataclass declares.
TripSummaryFields == TripSummaryRequired \cup {"stationary", "description", "departed_at",
    "time_zone", "locality", "administrative_area", "country_code", "activity_type",
    "avg_speed", "max_speed", "avg_hr", "min_hr", "max_hr", "avg_cad", "min_cad", "max_cad",
    "avg_watts", "min_watts", "max_watts", "calories", "first_lat", "first_lng", "last_lat",
    "last_lng", "sw_lat", "sw_lng", "ne_lat", "ne_lng", "track_type", "terrain", "difficulty",
    "device", "url", "web_url"}

RouteSummaryRequired == {"id", "user_id", "name", "distance", "elevation_gain", "elevation_loss",
    "created_at", "updated_at", "visibility"}

\* Every field the RouteSummary dataclass declares.
RouteSummaryFields == RouteSummaryRequired \cup {"description", "locality",
    "administrative_area", "country_code", "first_lat", "first_lng", "last_lat", "last_lng",
    "sw_lat", "sw_lng", "ne_lat", "ne_lng", "track_type", "terrain", "difficulty",
    "unpaved_pct", "surface", "archived", "url", "html_url"}

\* The field defaults the dataclasses declare (stationary = False, every other optional None).
FieldDefault(k) == IF k = "stationary" THEN Bool(FALSE) ELSE Null

\* A dataclass's generated __init__ called with keyword arguments kwargs: TypeError
\* for a keyword that is no field and for a required field not given, else the
\* record, a field not given holding its declared default.
NewInstance(fields, required, kw) ==
    IF ~(DOMAIN kw \subseteq fields)
    THEN Raise(TypeError("unexpected keyword argument"))
    ELSE IF ~(required \subseteq DOMAIN kw)
    THEN Raise(TypeError("missing required argument"))
    ELSE Ok([k \in fields |-> IF k \in DOMAIN kw THEN kw[k] ELSE FieldDefault(k)])

\* The call of a dataclass: the keyword arguments are evaluated, once, before the
\* instance is made of them.
Construct(fields, required, kwargs) ==
    CHOOSE new \in {NewInstance(fields, required, kw) : kw \in {kwargs}} : TRUE

\* ---------------------------------------------------------------- response mappers

\* The keys _parse_trip_summary reads with t.get(key, default), each passed to
\* TripSummary(...) as the keyword of the same name.
TripGetKeys == {"name", "distance", "duration", "moving_time", "elevation_gain",
    "elevation_loss", "created_at", "updated_at", "visibility", "stationary", "description",
    "departed_at", "time_zone", "locality", "administrative_area", "country_code",
    "activity_type", "avg_speed", "max_speed", "avg_hr", "min_hr", "max_hr", "avg_cad",
    "min_cad", "max_cad", "avg_watts", "min_watts", "max_watts", "calories", "first_lat",
    "first_lng", "last_lat", "last_lng", "sw_lat", "sw_lng", "ne_lat", "ne_lng", "track_type",
    "terrain", "difficulty", "device", "url", "web_url", "html_url"}

\* The default _parse_trip_summary gives t.get for each key.
TripGetDefault(k) ==
    CASE k \in {"name", "created_at", "updated_at", "visibility"} -> Str("")
      [] k \in {"distance", "duration", "moving_time", "elevation_gain", "elevation_loss"} -> Num(0)
      [] k = "stationary" -> Bool(FALSE)
      [] OTHER -> Null

\* _parse_trip_summary: t["id"] and t["user_id"] raise KeyError when absent; then
\* TripSummary(...) is called with one keyword per key read.
_parse_trip_summary(t) ==
    IF "id" \notin DOMAIN t THEN Index(t, "id")
    ELSE IF "user_id" \notin DOMAIN t THEN Index(t, "user_id")
    ELSE Construct(TripSummaryFields, TripSummaryRequired,
             [k \in {"id", "user_id"} \cup TripGetKeys |->
                 IF k \in {"id", "user_id"} THEN t[k] ELSE Get(t, k, TripGetDefault(k))])

\* The keys _parse_route_summary reads with r.get(key, default).
RouteGetKeys == {"name", "distance", "elevation_gain", "elevation_loss", "created_at",
    "updated_at", "visibility", "description", "locality", "administrative_area",
    "country_code", "first_lat", "first_lng", "last_lat", "last_lng", "sw_lat", "sw_lng",
    "ne_lat", "ne_lng", "track_type", "terrain", "difficulty", "unpaved_pct", "surface",
    "archived", "url", "html_url"}

\* The default _parse_route_summary gives r.get for each key.
RouteGetDefault(k) ==
    CASE k \in {"name", "created_at", "updated_at", "visibility"} -> Str("")
      [] k \in {"distance", "elevation_gain", "elevation_loss"} -> Num(0)
      [] OTHER -> Null

\* A route mapper written with `r.get(key) or default`: a null in the payload is
\* replaced by the default.
_parse_route_summary_or_default(r) ==
    IF "id" \notin DOMAIN r THEN Index(r, "id")
    ELSE IF "user_id" \notin DOMAIN r THEN Index(r, "user_id")
    ELSE Construct(RouteSummaryFields, RouteSummaryRequired,
             [k \in {"id", "user_id"} \cup RouteGetKeys |->
                 IF k \in {"id", "user_id"} THEN r[k]
                 ELSE GetNullAsAbsent(r, k, RouteGetDefault(k))])

\* _parse_route_summary.
_parse_route_summary(r) ==
    IF "id" \notin DOMAIN r THEN Index(r, "id")
    ELSE IF "user_id" \notin DOMAIN r THEN Index(r, "user_id")
    ELSE Construct(RouteSummaryFields, RouteSummaryRequired,
             [k \in {"id", "user_id"} \cup RouteGetKeys |->
                 IF k \in {"id", "user_id"} THEN r[k] ELSE Get(r, k, RouteGetDefault(k))])

\* User(id=u["id"], email=u.get("email", ""), ...), as get_user and authenticate build it.
ParseUser(u) ==
    IF "id" \notin DOMAIN u THEN Index(u, "id")
    ELSE Construct(UserFields, UserFields,
             [k \in UserFields |-> IF k = "id" THEN u[k] ELSE Get(u, k, Str(""))])

\* A pagination mapper whose next_page_url defaults to the empty string.
_parse_pagination_empty_url(meta) ==
    LET p == Get(meta, "pagination", <<>>)
    IN  [record_count |-> Get(p, "record_count", Num(0)),
         page_count |-> Get(p, "page_count", Num(0)),
         page_size |-> Get(p, "page_size", Num(0)),
         next_page_url |-> Get(p, "next_page_url", Str(""))]

\* _parse_pagination: meta.get("pagination", {}) and the four p.get calls.
_parse_pagination(meta) ==
    LET p == Get(meta, "pagination", <<>>)
    IN  [record_count |-> Get(p, "record_count", Num(0)),
         page_count |-> Get(p, "page_count", Num(0)),
         page_size |-> Get(p, "page_size", Num(0)),
         next_page_url |-> GetOrNone(p, "next_page_url")]

SyncItemRequired == {"item_type", "item_id", "item_user_id", "action", "datetime"}

\* SyncItem(item_type=i["item_type"], ..., item_url=i.get("item_url")).
ParseSyncItem(i) ==
    IF "item_type" \notin DOMAIN i THEN Index(i, "item_type")
    ELSE IF "item_id" \notin DOMAIN i THEN Index(i, "item_id")
    ELSE IF "item_user_id" \notin DOMAIN i THEN Index(i, "item_user_id")
    ELSE IF "action" \notin DOMAIN i THEN Index(i, "action")
    ELSE IF "datetime" \notin DOMAIN i THEN Index(i, "datetime")
    ELSE Ok([k \in SyncItemRequired \cup {"item_url"} |-> GetOrNone(i, k)])

\* The mapper a list comprehension applies to each element.
Apply(parser, x) ==
    CASE parser = "_parse_trip_summary" -> _parse_trip_summary(x)
      [] parser = "_parse_route_summary" -> _parse_route_summary(x)
      [] parser = "SyncItem" -> ParseSyncItem(x)

\* A list comprehension [parse(x) for x in xs]: the parsed items up to position n,
\* or the first exception a parse raised.
RECURSIVE MapUpTo(_, _, _)
MapUpTo(parser, xs, n) ==
    IF n = 0 THEN Ok(<<>>)
    ELSE LET head == MapUpTo(parser, xs, n - 1)
         IN  IF ~head.ok THEN head
             ELSE LET item == Apply(parser, xs[n])
                  IN  IF item.ok THEN Ok(Append(head.v, item.v)) ELSE item

MapList(parser, xs) == MapUpTo(parser, xs, Len(xs))

\* ---------------------------------------------------------------- request executor

\* Base URL for all RWGPS API v1 endpoints.
API_BASE_URL == "https://ridewithgps.com/api/v1"

\* No dict given: Python's None, which like {} is falsy.
None == <<>>

\* _headers with the two credentials exchanged.
_headers_swapped(c) ==
    ("x-rwgps-api-key" :> c._auth_token) @@ ("x-rwgps-auth-token" :> c._api_key)
        @@ ("Content-Type" :> "application/json")

\* The _headers property: the three headers built from the client's own fields.
_headers(c) ==
    ("x-rwgps-api-key" :> c._api_key) @@ ("x-rwgps-auth-token" :> c._auth_token)
        @@ ("Content-Type" :> "application/json")

\* The call _request hands to session.request: headers or self._headers.
_request_call(c, method, path, params, json_data, headers) ==
    [method |-> method,
     url |-> API_BASE_URL \o path,
     headers |-> IF DOMAIN headers = {} THEN _headers(c) ELSE headers,
     params |-> params,
     json |-> json_data]

\* _request with the generic check (status >= 400) made before the specific ones.
_request_generic_first(path, r) ==
    IF r.status >= 400 THEN Raise(ApiError(r.status, r.text))
    ELSE IF r.status = 204 THEN Ok(<<>>)
    ELSE Ok(r.json)

\* The body of _request's "async with": the status checks in the order of the code.
_request_result(path, r) ==
    IF r.status = 401 THEN Raise(AuthenticationError("Authentication failed"))
    ELSE IF r.status = 403 THEN Raise(ForbiddenError("Access forbidden"))
    ELSE IF r.status = 404 THEN Raise(NotFoundError("Resource not found: " \o path))
    ELSE IF r.status >= 400 THEN Raise(ApiError(r.status, r.text))
    ELSE IF r.status = 204 THEN Ok(<<>>)
    ELSE Ok(r.json)

\* ---------------------------------------------------------------- authenticate

\* The request authenticate posts with session.post: its own two headers.
authenticate_call(api_key, email, password) ==
    [method |-> "POST",
     url |-> API_BASE_URL \o "/auth_tokens.json",
     headers |-> ("x-rwgps-api-key" :> api_key) @@ ("Content-Type" :> "application/json"),
     params |-> None,
     json |-> [user |-> [email |-> email, password |-> password]]]

\* authenticate mapping the status as _request does.
authenticate_status_as_request(r) == _request_result("/auth_tokens.json", r)

\* authenticate's own status checks: 401, then 400, then any other status >= 400.
authenticate_status(r) ==
    IF r.status = 401 THEN Raise(AuthenticationError("Invalid email or password"))
    ELSE IF r.status = 400 THEN Raise(AuthenticationError("Bad request - check credentials"))
    ELSE IF r.status >= 400 THEN Raise(ApiError(r.status, r.text))
    ELSE Ok(r.json)

\* The unpacking with the outer "auth_token" object taken for the token.
authenticate_unpack_outer(data) ==
    LET auth_data == data["auth_token"]
        user == ParseUser(auth_data["user"])
    IN  IF ~user.ok THEN user
        ELSE Ok([auth_token |-> data["auth_token"],
                 api_key |-> auth_data["api_key"],
                 user |-> user.v,
                 created_at |-> GetOrNone(auth_data, "created_at"),
                 updated_at |-> GetOrNone(auth_data, "updated_at")])

\* The unpacking of authenticate's response: data["auth_token"], then its "user",
\* "auth_token" and "api_key", the keyword arguments being evaluated in order.
authenticate_unpack(data) ==
    IF "auth_token" \notin DOMAIN data THEN Index(data, "auth_token")
    ELSE LET auth_data == data["auth_token"]
         IN  IF "user" \notin DOMAIN auth_data THEN Index(auth_data, "user")
             ELSE IF "auth_token" \notin DOMAIN auth_data THEN Index(auth_data, "auth_token")
             ELSE IF "api_key" \notin DOMAIN auth_data THEN Index(auth_data, "api_key")
             ELSE LET user == ParseUser(auth_data["user"])
                  IN  IF ~user.ok THEN user
                      ELSE Ok([auth_token |-> auth_data["auth_token"],
                               api_key |-> auth_data["api_key"],
                               user |-> user.v,
                               created_at |-> GetOrNone(auth_data, "created_at"),
                               updated_at |-> GetOrNone(auth_data, "updated_at")])

\* authenticate, from the response on.
authenticate_result(r) ==
    LET data == authenticate_status(r)
    IN  IF ~data.ok THEN data ELSE authenticate_unpack(data.v)

\* ---------------------------------------------------------------- single-call operations

\* get_user, from the response on.
get_user_result(r) ==
    LET data == _request_result("/users/current.json", r)
    IN  IF ~data.ok THEN data
        ELSE IF "user" \notin DOMAIN data.v THEN Index(data.v, "user")
        ELSE ParseUser(data.v["user"])

\* The request get_trips and get_routes issue for one page.
list_call(c, path, pg, page_size) ==
    _request_call(c, "GET", path, [page |-> pg, page_size |-> page_size], None, None)

\* get_trips, from the response on: the items are mapped before the pagination.
get_trips_result(r) ==
    LET data == _request_result("/trips.json", r)
    IN  IF ~data.ok THEN data
        ELSE LET trips == MapList("_parse_trip_summary", Get(data.v, "trips", <<>>))
             IN  IF ~trips.ok THEN trips
                 ELSE Ok([items |-> trips.v,
                          pagination |-> _parse_pagination(Get(data.v, "meta", <<>>))])

\* get_routes, from the response on.
get_routes_result(r) ==
    LET data == _request_result("/routes.json", r)
    IN  IF ~data.ok THEN data
        ELSE LET routes == MapList("_parse_route_summary", Get(data.v, "routes", <<>>))
             IN  IF ~routes.ok THEN routes
                 ELSE Ok([items |-> routes.v,
                          pagination |-> _parse_pagination(Get(data.v, "meta", <<>>))])

\* The path of get_trip: f"/trips/{trip_id}.json".
TripPath(trip_id) == "/trips/" \o ToString(trip_id) \o ".json"

\* get_trip, from the response on.
get_trip_result(trip_id, r) ==
    LET data == _request_result(TripPath(trip_id), r)
    IN  IF ~data.ok THEN data
        ELSE IF "trip" \notin DOMAIN data.v THEN Index(data.v, "trip")
        ELSE _parse_trip_summary(data.v["trip"])

\* get_sync's request with the assets left at their default.
get_sync_call_default_assets(c, since, assets) ==
    _request_call(c, "GET", "/sync.json", [since |-> since, assets |-> "routes,trips"], None, None)

\* The request get_sync issues: since and assets as given.
get_sync_call(c, since, assets) ==
    _request_call(c, "GET", "/sync.json", [since |-> since, assets |-> assets], None, None)

\* get_sync, from the response on.
get_sync_result(r) ==
    LET data == _request_result("/sync.json", r)
    IN  IF ~data.ok THEN data
        ELSE LET items == MapList("SyncItem", Get(data.v, "items", <<>>))
                 meta == Get(data.v, "meta", <<>>)
             IN  IF ~items.ok THEN items
                 ELSE Ok([items |-> items.v,
                          rwgps_datetime |-> Get(meta, "rwgps_datetime", Str("")),
                          next_sync_url |-> GetOrNone(meta, "next_sync_url")])

\* ---------------------------------------------------------------- the server

\* The statuses >= 400 the server answers with.
ErrStatuses == {400, 401, 403, 404, 500}
\* The raw body texts of an error response.
ErrBodies == {"", "server error"}
\* A response: its status, what resp.text() yields and what resp.json() yields.
ErrResponses == [status : ErrStatuses, text : ErrBodies, json : {<<>>}]

\* A value of the payload for key k: a string field holds its own key, so that two
\* fields swapped by a mapper differ.
SampleValue(k) ==
    CASE k \in {"distance", "duration", "moving_time", "elevation_gain", "elevation_loss",
                "avg_speed", "max_speed", "avg_hr", "min_hr", "max_hr", "avg_cad", "min_cad",
                "max_cad", "avg_watts", "min_watts", "max_watts", "calories", "first_lat",
                "first_lng", "last_lat", "last_lng", "sw_lat", "sw_lng", "ne_lat", "ne_lng",
                "unpaved_pct"} -> Num(7)
      [] k \in {"stationary", "archived"} -> Bool(TRUE)
      [] OTHER -> Str(k)

\* The i-th trip object of the payloads: every key for an odd i, only id and
\* user_id for an even one.
TripObj(i) ==
    [k \in {"id", "user_id"} \cup (IF i % 2 = 1 THEN TripGetKeys ELSE {}) |->
        IF k = "id" THEN Num(i) ELSE IF k = "user_id" THEN Num(1) ELSE SampleValue(k)]

\* The i-th route object of the payloads.
RouteObj(i) ==
    [k \in {"id", "user_id"} \cup (IF i % 2 = 1 THEN RouteGetKeys ELSE {}) |->
        IF k = "id" THEN Num(i) ELSE IF k = "user_id" THEN Num(1) ELSE SampleValue(k)]

ListKey(path) == IF path = "/trips.json" THEN "trips" ELSE "routes"
ListObj(path, i) == IF path = "/trips.json" THEN TripObj(i) ELSE RouteObj(i)

\* The meta object of a list response whose next_page_url is next.
ListMeta(n, next) ==
    [pagination |-> [record_count |-> Num(n), page_count |-> Num(1), page_size |-> Num(200),
                     next_page_url |-> next]]

\* The JSON bodies of a list response: n items and a next_page_url that is null or a
\* URL; the same without its meta object; a meta object without the list.
ListBodies(path) ==
    {(ListKey(path) :> [i \in 1..n |-> ListObj(path, i)]) @@ ("meta" :> ListMeta(n, next)) :
        n \in 0..MaxItems, next \in {Null, Str("next")}}
    \cup {(ListKey(path) :> [i \in 1..n |-> ListObj(path, i)]) : n \in 0..MaxItems}
    \cup {("meta" :> ListMeta(0, next)) : next \in {Null, Str("next")}}

UserObjs == {[k \in UserFields |-> IF k = "id" THEN Num(1) ELSE SampleValue(k)],
             [id |-> Num(2)]}

\* The tokens and timestamps the server issues.
Tokens == {"T"}
AuthBodies(api_key) ==
    {[auth_token |-> [auth_token |-> Str(T), api_key |-> Str(api_key), user |-> u]] :
        T \in Tokens, u \in UserObjs}
    \cup {[auth_token |-> [auth_token |-> Str(T), api_key |-> Str(api_key), user |-> u,
                           created_at |-> Str("created_at"), updated_at |-> Str("updated_at")]] :
        T \in Tokens, u \in UserObjs}

\* The entries of the sync payloads, in the server's order: two created trips, a
\* deleted route, then the first entry again, then updated routes.
SyncObj(i) ==
    CASE i = 1 -> [item_type |-> Str("trip"), item_id |-> Num(1), item_user_id |-> Num(1),
                   action |-> Str("created"), datetime |-> Str("d1"), item_url |-> Str("u1")]
      [] i = 2 -> [item_type |-> Str("trip"), item_id |-> Num(2), item_user_id |-> Num(1),
                   action |-> Str("created"), datetime |-> Str("d2")]
      [] i = 3 -> [item_type |-> Str("route"), item_id |-> Num(3), item_user_id |-> Num(1),
                   action |-> Str("deleted"), datetime |-> Str("d3")]
      [] i = 4 -> [item_type |-> Str("trip"), item_id |-> Num(1), item_user_id |-> Num(1),
                   action |-> Str("created"), datetime |-> Str("d1"), item_url |-> Str("u1")]
      [] OTHER -> [item_type |-> Str("route"), item_id |-> Num(i), item_user_id |-> Num(1),
                   action |-> Str("updated"), datetime |-> Str("d5")]

\* The longest list of entries of a sync payload.
MaxSyncItems == 4
ServerTimes == {Str("2024-01-01T00:00:00Z")}
SyncBodies ==
    {[items |-> [i \in 1..n |-> SyncObj(i)], meta |-> [rwgps_datetime |-> t]] :
        n \in 0..MaxSyncItems, t \in ServerTimes}
    \cup {[items |-> [i \in 1..n |-> SyncObj(i)],
           meta |-> [rwgps_datetime |-> t, next_sync_url |-> Str("next_sync_url")]] :
        n \in 0..MaxSyncItems, t \in ServerTimes}

\* The success bodies the server may give for a request.
OkBodies(req) ==
    IF req.url = API_BASE_URL \o "/auth_tokens.json"
    THEN AuthBodies(req.headers["x-rwgps-api-key"])
    ELSE IF req.url = API_BASE_URL \o "/users/current.json" THEN {[user |-> u] : u \in UserObjs}
    ELSE IF req.url = API_BASE_URL \o "/trips.json" THEN ListBodies("/trips.json")
    ELSE IF req.url = API_BASE_URL \o "/routes.json" THEN ListBodies("/routes.json")
    ELSE IF req.url = API_BASE_URL \o "/sync.json" THEN SyncBodies
    ELSE {[trip |-> TripObj(i)] : i \in 1..2}

\* Every response the server may give for a request: an error, 204 with no body
\* (to a GET), or a success (200, and 201 outside the listings) with a JSON body.
Responses(req) ==
    ErrResponses
    \cup (IF req.method = "POST" THEN {} ELSE {[status |-> 204, text |-> "", json |-> <<>>]})
    \cup [status : IF "page" \in DOMAIN req.params THEN {200} ELSE {200, 201},
          text : {""}, json : OkBodies(req)]

IsListRequest(req) == "page" \in DOMAIN req.params

\* The server's answers to req: to a drain, what it already answered for that page
\* of the listing (the dataset is fixed while the same collection is drained
\* again), else any response.
Answers(req) ==
    IF served.path # "none" /\ IsListRequest(req) /\ req.params["page"] \in DOMAIN served.pages
    THEN {served.pages[req.params["page"]]}
    ELSE Responses(req)

\* The listing after the server answered req with r.
Remember(req, r) ==
    IF served.path # "none" /\ IsListRequest(req)
    THEN [served EXCEPT !.pages = (req.params["page"] :> r) @@ served.pages]
    ELSE served

\* The listing held fixed across a new drain of `path`: kept while the same
\* collection is drained again, forgotten by any other call.
Listing(path) == IF served.path = path THEN served ELSE [path |-> path, pages |-> <<>>]

\* ---------------------------------------------------------------- the caller's inputs

ApiKeys == {"key-A", "key-B"}
Emails == {"rider@example.com"}
Passwords == {"hunter2"}
\* Ride with GPS page sizes (20-200) a caller of get_trips / get_routes passes.
PageSizes == {20, 200}
TripIds == {1, 2}
Epoch == Str("1970-01-01T00:00:00Z")
AssetChoices == {"routes,trips", "routes", "trips"}

Pending == [ok |-> "pending"]
NoResponse == [status |-> 0, text |-> "", json |-> <<>>]
NoCall == [op |-> "none"]

IsDrain(op) == op \in {"get_all_trips", "get_all_routes"}
DrainPath(op) == IF op = "get_all_trips" THEN "/trips.json" ELSE "/routes.json"

\* The since values a caller passes to get_sync: the epoch, or the rwgps_datetime
\* the get_sync just before returned.
Sinces ==
    {Epoch} \cup (IF call.op = "get_sync" /\ outcome # Pending /\ outcome.ok
                  THEN {outcome.v.rwgps_datetime} ELSE {})

\* ---------------------------------------------------------------- state machine

\* RideWithGPSClient.__init__.
RideWithGPSClient(session, api_key, auth_token) ==
    [_session |-> session, _api_key |-> api_key, _auth_token |-> auth_token]

\* The arguments the caller constructs the client with.
TheSession == "session"
TheApiKey == "key-A"
TheAuthToken == "tok-A"

Init ==
    /\ client = RideWithGPSClient(TheSession, TheApiKey, TheAuthToken)
    /\ served = [path |-> "none", pages |-> <<>>]
    /\ call = NoCall
    /\ pc = "idle"
    /\ page = 0
    /\ acc = <<>>
    /\ inflight = {}
    /\ sent = <<>>
    /\ resp = NoResponse
    /\ outcome = Pending
    /\ prev = NoCall

\* A public operation is entered and runs to its first await: c is the call, reqs
\* the requests it issues there, path the listing it drains (or "none").
Enter(c, reqs, path) ==
    /\ pc = "idle"
    /\ call' = c
    /\ pc' = "await"
    /\ sent' = reqs
    /\ inflight' = {reqs[i] : i \in 1..Len(reqs)}
    /\ resp' = NoResponse
    /\ outcome' = Pending
    /\ served' = Listing(path)
    /\ acc' = <<>>
    /\ page' = IF IsDrain(c.op) THEN 1 ELSE 0
    /\ prev' = IF IsDrain(c.op) /\ call.op = c.op
               THEN [op |-> call.op, sent |-> sent, outcome |-> outcome]
               ELSE NoCall
    /\ UNCHANGED client

authenticate(api_key, email, password) ==
    Enter([op |-> "authenticate", api_key |-> api_key, email |-> email, password |-> password],
          <<authenticate_call(api_key, email, password)>>, "none")

get_user ==
    Enter([op |-> "get_user"],
          <<_request_call(client, "GET", "/users/current.json", None, None, None)>>, "none")

get_trips(pg, page_size) ==
    Enter([op |-> "get_trips", page |-> pg, page_size |-> page_size],
          <<list_call(client, "/trips.json", pg, page_size)>>, "none")

get_trip(trip_id) ==
    Enter([op |-> "get_trip", trip_id |-> trip_id],
          <<_request_call(client, "GET", TripPath(trip_id), None, None, None)>>, "none")

get_routes(pg, page_size) ==
    Enter([op |-> "get_routes", page |-> pg, page_size |-> page_size],
          <<list_call(client, "/routes.json", pg, page_size)>>, "none")

get_sync(since, assets) ==
    Enter([op |-> "get_sync", since |-> since, assets |-> assets],
          <<get_sync_call(client, since, assets)>>, "none")

\* A drain that asks for pages 1 and 2 together before awaiting either.
DrainFirstRequestsAhead(c, path) ==
    <<list_call(c, path, 1, 200), list_call(c, path, 2, 200)>>

\* The requests a drain has issued when it first awaits: get_trips / get_routes
\* for page 1 with page_size 200.
DrainFirstRequests(c, path) == <<list_call(c, path, 1, 200)>>

get_all_trips ==
    Enter([op |-> "get_all_trips"], DrainFirstRequests(client, "/trips.json"), "/trips.json")

get_all_routes ==
    Enter([op |-> "get_all_routes"], DrainFirstRequests(client, "/routes.json"), "/routes.json")

\* The server answers an outstanding request.
ServerRespond ==
    /\ pc = "await"
    /\ \E req \in inflight :
         \E r \in Answers(req) :
            /\ resp' = r
            /\ inflight' = inflight \ {req}
            /\ served' = Remember(req, r)
    /\ pc' = "recv"
    /\ UNCHANGED <<client, call, page, acc, sent, outcome, prev>>

\* What a single-call operation makes of its response.
Result(c, r) ==
    CASE c.op = "authenticate" -> authenticate_result(r)
      [] c.op = "get_user" -> get_user_result(r)
      [] c.op = "get_trips" -> get_trips_result(r)
      [] c.op = "get_trip" -> get_trip_result(c.trip_id, r)
      [] c.op = "get_routes" -> get_routes_result(r)
      [] c.op = "get_sync" -> get_sync_result(r)

\* A completion that keeps the token authenticate returned as the client's own.
CompleteStoringToken ==
    /\ pc = "recv"
    /\ ~IsDrain(call.op)
    /\ outcome' = Result(call, resp)
    /\ client' = IF call.op = "authenticate" /\ outcome'.ok
                 THEN [client EXCEPT !._auth_token = outcome'.v["auth_token"].v]
                 ELSE client
    /\ pc' = "idle"
    /\ UNCHANGED <<served, call, page, acc, inflight, sent, resp, prev>>

\* A single-call operation resumes with its response and returns or raises.
Complete ==
    /\ pc = "recv"
    /\ ~IsDrain(call.op)
    /\ outcome' = Result(call, resp)
    /\ pc' = "idle"
    /\ UNCHANGED <<client, served, call, page, acc, inflight, sent, resp, prev>>

\* The single-page fetch of a drain, from the response on.
FetchResult(op, r) == IF op = "get_all_trips" THEN get_trips_result(r) ELSE get_routes_result(r)

\* An accumulator that takes from a page only the items whose id it does not hold.
ExtendUnique(all, items) ==
    all \o SelectSeq(items, LAMBDA x : \A j \in 1..Len(all) : all[j]["id"] # x["id"])

\* The drain's accumulator after all_trips.extend(result.items).
Extend(all, items) == all \o items

\* A test that also takes a page without items for the last one.
IsLastPageOrEmpty(result) == result.pagination.next_page_url = Null \/ result.items = <<>>

\* The drain's test for having reached the last page.
IsLastPage(result) == result.pagination.next_page_url = Null

\* The page a drain asks for after page pg.
NextPage(pg) == pg + 1

\* A drain that swallows the fetch's exception and returns what it has accumulated.
DrainFailReturnsPartial ==
    /\ pc = "recv"
    /\ IsDrain(call.op)
    /\ ~FetchResult(call.op, resp).ok
    /\ outcome' = Ok(acc)
    /\ pc' = "idle"
    /\ UNCHANGED <<client, served, call, page, acc, inflight, sent, resp, prev>>

\* The drain resumes and the single-page fetch raises: the exception leaves the drain.
DrainFail ==
    /\ pc = "recv"
    /\ IsDrain(call.op)
    /\ \E result \in {FetchResult(call.op, resp)} :
          /\ ~result.ok
          /\ outcome' = result
    /\ pc' = "idle"
    /\ UNCHANGED <<client, served, call, page, acc, inflight, sent, resp, prev>>

\* The drain resumes with the last page: extend, break, return the accumulator.
DrainFinish ==
    /\ pc = "recv"
    /\ IsDrain(call.op)
    /\ \E result \in {FetchResult(call.op, resp)} :
          /\ result.ok
          /\ IsLastPage(result.v)
          /\ acc' = Extend(acc, result.v.items)
    /\ outcome' = Ok(acc')
    /\ pc' = "idle"
    /\ UNCHANGED <<client, served, call, page, inflight, sent, resp, prev>>

\* The drain resumes with a page that has a next one: extend, page += 1, and the
\* request for that page is issued.
DrainContinue ==
    /\ pc = "recv"
    /\ IsDrain(call.op)
    /\ page < MaxPages
    /\ \E result \in {FetchResult(call.op, resp)} :
          /\ result.ok
          /\ ~IsLastPage(result.v)
          /\ acc' = Extend(acc, result.v.items)
    /\ page' = NextPage(page)
    /\ sent' = Append(sent, list_call(client, DrainPath(call.op), page', 200))
    /\ inflight' = inflight \cup {list_call(client, DrainPath(call.op), page', 200)}
    /\ pc' = "await"
    /\ UNCHANGED <<client, served, call, resp, outcome, prev>>

Next ==
    \/ \E k \in ApiKeys, e \in Emails, p \in Passwords : authenticate(k, e, p)
    \/ get_user
    \/ \E pg \in 1..MaxPages, sz \in PageSizes : get_trips(pg, sz)
    \/ \E id \in TripIds : get_trip(id)
    \/ \E pg \in 1..MaxPages, sz \in PageSizes : get_routes(pg, sz)
    \/ \E since \in Sinces, assets \in AssetChoices : get_sync(since, assets)
    \/ get_all_trips
    \/ get_all_routes
    \/ ServerRespond
    \/ Complete
    \/ DrainFail
    \/ DrainFinish
    \/ DrainContinue

Spec == Init /\ [][Next]_vars

\* One drain of either collection by a client that made no call before, under the
\* scheduling of the code: the server answers every request, and the event loop
\* resumes the coroutine whose response has arrived.
DrainNext ==
    \/ call = NoCall /\ get_all_trips
    \/ call = NoCall /\ get_all_routes
    \/ ServerRespond
    \/ DrainFail
    \/ DrainFinish
    \/ DrainContinue

DrainSpec ==
    /\ Init /\ [][DrainNext]_vars
    /\ WF_vars(ServerRespond)
    /\ WF_vars(DrainFail)
    /\ WF_vars(DrainFinish)
    /\ WF_vars(DrainContinue)

\* ---------------------------------------------------------------- the mappers alone

\* What a payload does with a key: leaves it out, gives it a value, gives it null.
KeyStates == {"absent", "value", "null"}

\* The keys _parse_pagination reads.
PaginationKeys == {"record_count", "page_count", "page_size", "next_page_url"}

\* The value a payload gives a key.
PayloadValue(k) ==
    IF k \in {"record_count", "page_count", "page_size"} THEN Num(7) ELSE SampleValue(k)

\* The JSON object with the keys `always` (ids) and, of the keys of the function
\* state, those it does not leave out.
Payload(always, state) ==
    [k \in always \cup {j \in DOMAIN state : state[j] # "absent"} |->
        IF k \in always THEN Num(1)
        ELSE IF state[k] = "null" THEN Null ELSE PayloadValue(k)]

\* Route objects: one optional key in any state, the other optional keys all alike
\* in any state (so all present, all null and all absent are among them).
RoutePayloads ==
    {Payload({"id", "user_id"}, [j \in RouteGetKeys |-> IF j = k THEN s ELSE rest]) :
        k \in RouteGetKeys, s \in KeyStates, rest \in KeyStates}

\* Meta objects: a pagination object with each of its keys in any state, and a
\* meta object with no pagination.
MetaPayloads ==
    {[pagination |-> Payload({}, state)] : state \in [PaginationKeys -> KeyStates]}
    \cup {<<>>}

\* The bodies of a routes page given to the mappers: one route object and a meta
\* object, either of them varied.
MapperBodies ==
    {("routes" :> <<r>>) @@ ("meta" :> ListMeta(1, Null)) : r \in RoutePayloads}
    \cup {("routes" :> <<RouteObj(1)>>) @@ ("meta" :> m) : m \in MetaPayloads}

\* get_routes has received the response to its request: any of the bodies above.
MapperInit ==
    /\ client = RideWithGPSClient(TheSession, TheApiKey, TheAuthToken)
    /\ served = [path |-> "none", pages |-> <<>>]
    /\ call = [op |-> "get_routes", page |-> 1, page_size |-> 200]
    /\ pc = "recv"
    /\ page = 0
    /\ acc = <<>>
    /\ inflight = {}
    /\ sent = <<list_call(client, "/routes.json", 1, 200)>>
    /\ resp \in [status : {200}, text : {""}, json : MapperBodies]
    /\ outcome = Pending
    /\ prev = NoCall

\* get_routes maps the body it received.
MapperSpec == MapperInit /\ [][Complete]_vars

\* ---------------------------------------------------------------- the claims

\* The current call has returned or raised.
Ended == pc = "idle" /\ outcome # Pending
Returned == Ended /\ outcome.ok
Raised == Ended /\ ~outcome.ok

\* The response to the k-th request of the current drain has arrived.
Answered(k) == k < Len(sent) \/ (k = Len(sent) /\ pc # "await")

\* The response the server gave for page k of the listing being drained.
PageResponse(k) == served.pages[k]

\* The server's response r carries no next page: no body, no meta, no pagination,
\* no next_page_url, or a null one.
NextUrlIsNull(r) ==
    \/ r.status = 204
    \/ "meta" \notin DOMAIN r.json
    \/ "pagination" \notin DOMAIN r.json["meta"]
    \/ "next_page_url" \notin DOMAIN r.json["meta"]["pagination"]
    \/ r.json["meta"]["pagination"]["next_page_url"] = Null

\* The items the server put on page k.
PageItems(k) ==
    IF PageResponse(k).status = 204 THEN <<>>
    ELSE Get(PageResponse(k).json, ListKey(served.path), <<>>)

\* Every page answered so far in the current drain was an HTTP success.
AllPagesSucceeded == \A k \in 1..Len(sent) : Answered(k) => PageResponse(k).status < 400

\* The requests of a drain are for pages 1, 2, 3, ... with page_size 200.
PagesInOrder ==
    \A i \in 1..Len(sent) :
        /\ sent[i].method = "GET"
        /\ sent[i].url = API_BASE_URL \o DrainPath(call.op)
        /\ sent[i].params = [page |-> i, page_size |-> 200]

\* C1: every drain fetches pages 1, 2, 3, ... in order, without gap or repeat and
\* with page_size 200; it fetches no page after the first page whose
\* next_page_url is null, and, the server answering every page with success, it
\* does not end before having fetched that page.
C1_DrainFetchesInOrderToLastPage ==
    IsDrain(call.op) =>
        /\ Len(sent) >= 1
        /\ PagesInOrder
        /\ \A k \in 1..(Len(sent) - 1) : ~NextUrlIsNull(PageResponse(k))
        /\ (Ended /\ AllPagesSucceeded) => NextUrlIsNull(PageResponse(Len(sent)))

RECURSIVE ItemsUpTo(_)
\* The items of pages 1..k of the listing, in page order.
ItemsUpTo(k) == IF k = 0 THEN <<>> ELSE ItemsUpTo(k - 1) \o PageItems(k)

\* C2: get_all_trips against a listing of n successful pages, next_page_url null
\* only on page n, returns one TripSummary per trip object of every page in page
\* order, so as many as the pages hold together.
C2_AllTripsReturnsEveryTrip ==
    ( /\ call.op = "get_all_trips"
      /\ Ended
      /\ AllPagesSucceeded
      /\ NextUrlIsNull(PageResponse(Len(sent))) )
    => /\ outcome.ok
       /\ Len(outcome.v) = Len(ItemsUpTo(Len(sent)))
       /\ \A j \in 1..Len(outcome.v) : outcome.v[j]["id"] = ItemsUpTo(Len(sent))[j]["id"]

\* The exception types _request raises for a status.
StatusErrors == {"AuthenticationError", "ForbiddenError", "NotFoundError", "ApiError"}

\* The current call went through _request (every operation but authenticate).
UsesRequest == call.op \notin {"none", "authenticate"}

\* C3: in _request the outcome is decided by the status alone: 401 raises
\* AuthenticationError, 403 ForbiddenError, 404 NotFoundError, any other status
\* >= 400 raises ApiError with that status and the raw body text, and a status
\* below 400 (200, 201, 204) raises none of them.
C3_RequestStatusMapping ==
    (UsesRequest /\ Ended) =>
        /\ resp.status = 401 => (~outcome.ok /\ outcome.exc.type = "AuthenticationError")
        /\ resp.status = 403 => (~outcome.ok /\ outcome.exc.type = "ForbiddenError")
        /\ resp.status = 404 => (~outcome.ok /\ outcome.exc.type = "NotFoundError")
        /\ (resp.status >= 400 /\ resp.status \notin {401, 403, 404}) =>
              (~outcome.ok /\ outcome.exc = ApiError(resp.status, resp.text))
        /\ resp.status < 400 => (outcome.ok \/ outcome.exc.type \notin StatusErrors)

\* A call through _request got status 400 and raised ApiError(400, body).
C3_Witness ==
    /\ UsesRequest /\ Ended
    /\ resp.status = 400 /\ resp.text = "server error"
    /\ ~outcome.ok /\ outcome.exc.type = "ApiError" /\ outcome.exc.status = 400
    /\ outcome.exc.message = "server error"

\* The single-page fetch of page k of the current drain raised.
FetchFailed(k) == Answered(k) /\ ~FetchResult(call.op, PageResponse(k)).ok

\* C4: when the fetch of a page k of a drain fails, the drain ends with that same
\* error and returns no list; page k is not requested again and no later page is
\* requested.
C4_DrainPropagatesFetchError ==
    IsDrain(call.op) =>
        \A k \in 1..Len(sent) :
            FetchFailed(k) =>
                /\ k = Len(sent)
                /\ \A i \in 1..Len(sent) : sent[i].params["page"] = k => i = k
                /\ pc # "await"
                /\ Ended => outcome = FetchResult(call.op, PageResponse(k))
                /\ Ended => ~outcome.ok

\* A routes drain whose page 1 held routes and whose page 2 answered 500 has raised
\* ApiError(500) after two requests.
C4_Witness ==
    /\ call.op = "get_all_routes" /\ Ended
    /\ Len(sent) = 2
    /\ Len(PageItems(1)) > 0
    /\ PageResponse(2).status = 500
    /\ ~outcome.ok /\ outcome.exc = ApiError(500, PageResponse(2).text)

\* C5: authenticate raises AuthenticationError exactly for status 400 and 401 (the
\* two differing in message only), ApiError(status, body) for every other status
\* >= 400, 403 and 404 included, and no status error below 400.
C5_AuthenticateStatusMapping ==
    (call.op = "authenticate" /\ Ended) =>
        /\ (~outcome.ok /\ outcome.exc.type = "AuthenticationError") <=> resp.status \in {400, 401}
        /\ resp.status = 401 => outcome.exc = AuthenticationError("Invalid email or password")
        /\ resp.status = 400 => outcome.exc = AuthenticationError("Bad request - check credentials")
        /\ (resp.status >= 400 /\ resp.status \notin {400, 401}) =>
              (~outcome.ok /\ outcome.exc = ApiError(resp.status, resp.text))
        /\ resp.status < 400 => (outcome.ok \/ outcome.exc.type \notin StatusErrors)

\* authenticate got status 403 and raised ApiError(403, body), not ForbiddenError.
C5_Witness ==
    /\ call.op = "authenticate" /\ Ended
    /\ resp.status = 403
    /\ ~outcome.ok /\ outcome.exc = ApiError(403, resp.text)

ApiKeyHeader == "x-rwgps-api-key"
AuthTokenHeader == "x-rwgps-auth-token"
ContentTypeHeader == "Content-Type"

\* C6: a request of authenticate carries the api-key header (the api_key given to
\* it) and the JSON content type and no auth-token header; a request of any other
\* operation carries all three, the api key and the auth token being those the
\* client was constructed with.
C6_RequestHeaders ==
    \A i \in 1..Len(sent) :
        IF call.op = "authenticate"
        THEN /\ DOMAIN sent[i].headers = {ApiKeyHeader, ContentTypeHeader}
             /\ sent[i].headers[ApiKeyHeader] = call.api_key
             /\ sent[i].headers[ContentTypeHeader] = "application/json"
        ELSE /\ DOMAIN sent[i].headers = {ApiKeyHeader, AuthTokenHeader, ContentTypeHeader}
             /\ sent[i].headers[ApiKeyHeader] = TheApiKey
             /\ sent[i].headers[AuthTokenHeader] = TheAuthToken
             /\ sent[i].headers[ContentTypeHeader] = "application/json"

\* authenticate, given another application's key than the client's, has posted its
\* request under that key and without an auth-token header.
C6_Witness ==
    /\ call.op = "authenticate"
    /\ call.api_key = "key-B"
    /\ Len(sent) = 1
    /\ sent[1].headers[ApiKeyHeader] = "key-B"
    /\ AuthTokenHeader \notin DOMAIN sent[1].headers

\* C7: for a successful response {"auth_token": {"auth_token": T, "api_key": K,
\* "user": {"id": I, ...}}} the AuthToken returned has auth_token T (the inner
\* value), api_key K and user.id I, and created_at and updated_at are null when the
\* response has none.
C7_AuthTokenUnpacking ==
    (call.op = "authenticate" /\ Ended /\ resp.status < 400) =>
        LET inner == resp.json["auth_token"]
        IN  /\ outcome.ok
            /\ outcome.v["auth_token"] = inner["auth_token"]
            /\ outcome.v["api_key"] = inner["api_key"]
            /\ outcome.v["user"]["id"] = inner["user"]["id"]
            /\ "created_at" \notin DOMAIN inner => outcome.v["created_at"] = Null
            /\ "updated_at" \notin DOMAIN inner => outcome.v["updated_at"] = Null
            /\ "created_at" \in DOMAIN inner => outcome.v["created_at"] = inner["created_at"]
            /\ "updated_at" \in DOMAIN inner => outcome.v["updated_at"] = inner["updated_at"]

\* authenticate returned token "T" with user id 1 from a response without timestamps.
C7_Witness ==
    /\ call.op = "authenticate" /\ Returned
    /\ "created_at" \notin DOMAIN resp.json["auth_token"]
    /\ outcome.v["auth_token"] = Str("T")
    /\ outcome.v["api_key"] = Str(call.api_key)
    /\ outcome.v["user"]["id"] = Num(1)
    /\ outcome.v["created_at"] = Null /\ outcome.v["updated_at"] = Null

\* C8: get_all_trips called twice on the same client against a fixed dataset whose
\* pages the server answers with success returns two equal sequences of trips, the
\* second drain issuing the same page requests as the first.
C8_AllTripsTwiceEqual ==
    ( /\ call.op = "get_all_trips" /\ Ended
      /\ prev.op = "get_all_trips"
      /\ AllPagesSucceeded )
    => /\ prev.outcome.ok /\ outcome.ok
       /\ outcome.v = prev.outcome.v
       /\ sent = prev.sent

\* C9: get_sync issues one request, its since and assets being the caller's; it
\* returns one SyncItem per entry of the server's items, in the server's order and
\* with every field as the server gave it, and the server's rwgps_datetime.
C9_SyncPassesThrough ==
    call.op = "get_sync" =>
        /\ Len(sent) = 1
        /\ sent[1].url = API_BASE_URL \o "/sync.json"
        /\ sent[1].params = [since |-> call.since, assets |-> call.assets]
        /\ (Ended /\ resp.status \in {200, 201}) =>
              /\ outcome.ok
              /\ Len(outcome.v.items) = Len(resp.json.items)
              /\ \A j \in 1..Len(resp.json.items) :
                    \A k \in DOMAIN resp.json.items[j] :
                        outcome.v.items[j][k] = resp.json.items[j][k]
              /\ outcome.v.rwgps_datetime = resp.json.meta.rwgps_datetime

\* A sync from the epoch returned a cursor, and the next get_sync, given that cursor
\* as since, sent it and returned the 3 entries (2 created trips, 1 deleted route).
C9_Witness ==
    /\ call.op = "get_sync" /\ Returned
    /\ call.since # Epoch /\ call.since # Str("")
    /\ sent[1].params["since"] = call.since
    /\ Len(outcome.v.items) = 3
    /\ outcome.v.items[1]["action"] = Str("created")
    /\ outcome.v.items[2]["action"] = Str("created")
    /\ outcome.v.items[3]["action"] = Str("deleted")
    /\ outcome.v.items[3]["item_type"] = Str("route")
    /\ outcome.v.rwgps_datetime # Str("")

RECURSIVE ParsedUpTo(_)
\* What the single-page fetches of pages 1..k of the current drain returned, joined.
ParsedUpTo(k) ==
    IF k = 0 THEN <<>> ELSE ParsedUpTo(k - 1) \o FetchResult(call.op, PageResponse(k)).v.items

\* C10: a drain has at most one page request outstanding; the request for page k+1
\* is issued only once the response for page k has arrived, has been parsed and
\* its items are in the accumulator.
C10_OneRequestAtATime ==
    IsDrain(call.op) =>
        /\ Cardinality(inflight) <= 1
        /\ (pc = "await") <=> (inflight = {sent[Len(sent)]})
        /\ (pc # "await") => inflight = {}
        /\ \A k \in 1..(Len(sent) - 1) :
              /\ k \in DOMAIN served.pages
              /\ FetchResult(call.op, PageResponse(k)).ok
        /\ pc # "idle" => acc = ParsedUpTo(Len(sent) - 1)

\* A routes drain waits for page 2 alone, the routes of page 1 in its accumulator.
C10_Witness ==
    /\ call.op = "get_all_routes" /\ pc = "await"
    /\ Len(sent) = 2
    /\ inflight = {sent[2]}
    /\ Len(acc) = MaxItems
    /\ acc = ParsedUpTo(1)

\* C11: get_all_routes against a listing of n successful pages, next_page_url null
\* on page n only, returns the mapped route objects of pages 1..n joined in page
\* order and in the order within each page: none dropped, duplicated, reordered or
\* merged with another of the same id.
C11_AllRoutesReturnsConcatenation ==
    ( /\ call.op = "get_all_routes"
      /\ Ended
      /\ AllPagesSucceeded
      /\ NextUrlIsNull(PageResponse(Len(sent))) )
    => /\ outcome.ok
       /\ Len(outcome.v) = Len(ItemsUpTo(Len(sent)))
       /\ \A j \in 1..Len(outcome.v) :
             outcome.v[j] = _parse_route_summary(ItemsUpTo(Len(sent))[j]).v

\* A routes drain of two pages, the first route of page 1 being also the first of
\* page 2, returned both entries: the list holds that id at two positions.
C11_Witness ==
    /\ call.op = "get_all_routes" /\ Returned
    /\ Len(sent) = 2
    /\ Len(PageItems(1)) = MaxItems /\ Len(PageItems(2)) >= 1
    /\ PageItems(1)[1]["id"] = PageItems(2)[1]["id"]
    /\ Len(outcome.v) = MaxItems + Len(PageItems(2))
    /\ outcome.v[1]["id"] = outcome.v[MaxItems + 1]["id"]

\* The drain has fetched MaxPages pages, each with a next_page_url: the pages
\* beyond are not explored.
DrainAtBound ==
    /\ IsDrain(call.op) /\ pc = "recv" /\ page = MaxPages
    /\ FetchResult(call.op, resp).ok
    /\ ~NextUrlIsNull(resp)

\* A drain has returned only with a null next_page_url on the page fetched last,
\* and every page fetched before had one that is not null.
ReturnsOnlyAtNull ==
    IsDrain(call.op) =>
        /\ Returned => NextUrlIsNull(PageResponse(Len(sent)))
        /\ \A k \in 1..(Len(sent) - 1) : ~NextUrlIsNull(PageResponse(k))

\* The step of a drain resumed with a page whose fetch succeeded: it returns when
\* the page's next_page_url is null and else requests the next page, whatever the
\* page's items, page_count and record_count.
NullDecidesStep ==
    (IsDrain(call.op) /\ pc = "recv" /\ FetchResult(call.op, resp).ok) =>
        IF NextUrlIsNull(resp)
        THEN pc' = "idle" /\ outcome'.ok
        ELSE pc' = "await" /\ Len(sent') = Len(sent) + 1 /\ outcome' = Pending

\* C12: a null next_page_url is the only thing that ends a drain whose fetches
\* succeed: it returns at the first page with a null next_page_url and at no other
\* (not at an empty page, at page_count pages or at record_count items), so it
\* never returns while every page has a next_page_url, and a drain whose server
\* answers ends unless every page up to the bound has a next_page_url.
C12_NullNextPageUrlEndsDrain ==
    /\ []ReturnsOnlyAtNull
    /\ [][NullDecidesStep]_vars
    /\ (IsDrain(call.op) /\ pc # "idle") ~> (pc = "idle" \/ DrainAtBound)

\* A routes drain returned after three pages: page 1 held as many routes as its
\* record_count and had page_count 1, page 2 held none, both with a next_page_url,
\* and page 3 had a null one.
C12_Witness ==
    /\ call.op = "get_all_routes" /\ Returned
    /\ Len(sent) = 3
    /\ Len(PageItems(1)) = MaxItems
    /\ PageResponse(1).json["meta"]["pagination"]["record_count"] = Num(MaxItems)
    /\ PageResponse(1).json["meta"]["pagination"]["page_count"] = Num(1)
    /\ PageItems(2) = <<>> /\ PageResponse(2).status = 200
    /\ ~NextUrlIsNull(PageResponse(1)) /\ ~NextUrlIsNull(PageResponse(2))
    /\ NextUrlIsNull(PageResponse(3))

\* The default the documentation gives for a key left out of a payload.
DocumentedDefault(k) ==
    CASE k \in {"distance", "elevation_gain", "elevation_loss",
                "record_count", "page_count", "page_size"} -> Num(0)
      [] k \in {"name", "created_at", "updated_at", "visibility"} -> Str("")
      [] OTHER -> Null

\* The value documented for key k of the record mapped from object d.
DocumentedField(d, k) == IF k \in DOMAIN d THEN d[k] ELSE DocumentedDefault(k)

\* C13: in the route mapper and the pagination mapper every field of the record is
\* decided by its own key alone: the documented default when the key is absent (0,
\* the empty string or null), and the payload's value when it is present, a null
\* included, the default not taking its place. The ids apart, the record of an
\* object depends on nothing else.
C13_FieldsMappedByOwnKey ==
    (call.op = "get_routes" /\ Ended /\ resp.status = 200) =>
        LET routes == Get(resp.json, "routes", <<>>)
            p == Get(Get(resp.json, "meta", <<>>), "pagination", <<>>)
        IN  /\ outcome.ok
            /\ Len(outcome.v.items) = Len(routes)
            /\ \A j \in 1..Len(routes) :
                  /\ DOMAIN outcome.v.items[j] = {"id", "user_id"} \cup RouteGetKeys
                  /\ outcome.v.items[j]["id"] = routes[j]["id"]
                  /\ outcome.v.items[j]["user_id"] = routes[j]["user_id"]
                  /\ \A k \in RouteGetKeys :
                        outcome.v.items[j][k] = DocumentedField(routes[j], k)
            /\ DOMAIN outcome.v.pagination = PaginationKeys
            /\ \A k \in PaginationKeys : outcome.v.pagination[k] = DocumentedField(p, k)

\* A route object with a null name and no other optional key was mapped: the
\* record's name is null, its distance 0, its visibility "" and its url null.
C13_Witness ==
    /\ call.op = "get_routes" /\ Returned
    /\ DOMAIN resp.json["routes"][1] = {"id", "user_id", "name"}
    /\ resp.json["routes"][1]["name"] = Null
    /\ outcome.v.items[1]["name"] = Null
    /\ outcome.v.items[1]["distance"] = Num(0)
    /\ outcome.v.items[1]["visibility"] = Str("")
    /\ outcome.v.items[1]["url"] = Null

\* The response r is a success without pagination information: no body, no meta
\* object or no pagination object in it.
LacksPagination(r) ==
    \/ r.status = 204
    \/ r.status < 400 /\ "meta" \notin DOMAIN r.json
    \/ r.status < 400 /\ "meta" \in DOMAIN r.json /\ "pagination" \notin DOMAIN r.json["meta"]

\* The response r is a JSON body without the list key of the listing drained.
LacksListKey(r) == r.status < 400 /\ r.status # 204 /\ ListKey(served.path) \notin DOMAIN r.json

C15_ClientStateUnchanged ==
    /\ DOMAIN client = {"_session", "_api_key", "_auth_token"}
    /\ client._session = TheSession
    /\ client._api_key = TheApiKey
    /\ client._auth_token = TheAuthToken
    /\ \A f \in DOMAIN client :
          /\ client[f] \notin Passwords
          /\ (call.op = "authenticate" /\ Returned) => client[f] # outcome.v["auth_token"].v
          /\ (call.op = "get_sync" /\ Returned) => client[f] # outcome.v.rwgps_datetime.v

\* authenticate, called with another application's key and a password, returned a
\* token; the client still holds the key and the token of its construction.
C15_Witness ==
    /\ call.op = "authenticate" /\ Returned
    /\ call.api_key = "key-B" /\ call.password \in Passwords
    /\ outcome.v["auth_token"] = Str("T")
    /\ client._api_key = "key-A"
    /\ client._auth_token = "tok-A"

====
